---- MODULE Spec2Model ----
(***************************************************************************)
(* Model of src/src/optimization_model.py: the builder of the linear       *)
(* energy-flow model (opt_model), the solver invoker (solve_opt_model)     *)
(* and the edge deriver (get_edges).                                       *)
(*                                                                         *)
(* Numbers.  Flows are reals in the program.  Here a flow value is an      *)
(* integer number of tenths (Tenths(8) is the flow 8, 24 is the flow 2.4)  *)
(* and a coefficient is an exact fraction <<num, den>>, so 0.5, 0.8 and    *)
(* 0.6 are <<1,2>>, <<8,10>> and <<6,10>>.  Constraints are evaluated in   *)
(* exact arithmetic; the solver's numerical tolerance is not modelled.     *)
(*                                                                         *)
(* Pyomo.  po.Var(index..., bounds, within) is modelled as a table from    *)
(* index to bounds, po.Constraint(index..., rule) as the sequence of the   *)
(* rule's results over the index in order, built when the statement runs   *)
(* (the model is a ConcreteModel).  An exception raised by a rule or by a  *)
(* lookup ends opt_model.                                                  *)
(***************************************************************************)
EXTENDS Integers, Sequences, FiniteSets, TLC

VARIABLES
  entities,    \* opt_model's parameter: [buses, s_transformers, s_chps]
  edges,       \* opt_model's parameter: sequence of <<src, dst>>
  timesteps,   \* opt_model's parameter: sequence of time indices
  invest,      \* opt_model's parameter: the investment flag
  pc,          \* the statement of the program that runs next
  m,           \* the pyomo model under construction
  err,         \* the exception that ended the call, "none" when none did
  results,     \* the status the solver reported, "none" before the solve
  ret,         \* what solve_opt_model handed back, "none" before it returns
  components,  \* get_edges' parameter
  ge_i,        \* get_edges: index of the component the loop is at
  ge_edges     \* get_edges: the list built so far

vars == <<entities, edges, timesteps, invest, pc, m, err, results, ret,
          components, ge_i, ge_edges>>

----------------------------------------------------------------------------
(* Bounds of the model *)

\* most timesteps of a model
MaxT == 2
\* most components of a list handed to get_edges on its own
MaxComponents == 3

----------------------------------------------------------------------------
(* Program constants *)

\* line 35: m.w_max = dict(zip(edges, [100]*len(edges)))
W_MAX == 100
\* line 92: ... / 0.8
CHP_ETA == <<8, 10>>
\* line 100: ... * 0.6
CHP_PTH == <<6, 10>>

Tenths(x) == 10 * x

----------------------------------------------------------------------------
(* Helpers *)

Range(s) == {s[k] : k \in DOMAIN s}

\* [f(x) for x in xs for t in ts]: the index of an indexed pyomo component
IndexPairs(xs, ts) ==
  [k \in 1..(Len(xs) * Len(ts)) |->
     <<xs[((k - 1) \div Len(ts)) + 1], ts[((k - 1) % Len(ts)) + 1]>>]

Uids(cs) == [k \in DOMAIN cs |-> cs[k].uid]

\* {t.uid: f(t) for t in cs}[e]: a dict comprehension keeps the last entry
LastWith(cs, e) ==
  cs[CHOOSE k \in DOMAIN cs :
       /\ cs[k].uid = e
       /\ \A j \in DOMAIN cs : cs[j].uid = e => j <= k]

\* the variables of the model
WVar(i, j, t) == <<"w", i, j, t>>
AddVar(i, j) == <<"w_add", i, j>>

Term(v, num, den) == [v |-> v, num |-> num, den |-> den]

RECURSIVE FirstErr(_)
FirstErr(rs) ==
  IF rs = <<>> THEN "none"
  ELSE IF Head(rs).err # "none" THEN Head(rs).err
  ELSE FirstErr(Tail(rs))

Cons(rs) == [k \in DOMAIN rs |-> rs[k].con]

Ok(con) == [err |-> "none", con |-> con]
Raise(e) == [err |-> e, con |-> <<>>]

----------------------------------------------------------------------------
(* get_edges, lines 142-151 *)

InEdges(c) == [k \in DOMAIN c.inputs |-> <<c.inputs[k], c.uid>>]
OutEdges(c) == [k \in DOMAIN c.outputs |-> <<c.uid, c.outputs[k]>>]

\* a turn of the loop that leaves out the edges the list already holds
RECURSIVE AppendNew(_, _)
AppendNew(acc, es) ==
  IF es = <<>> THEN acc
  ELSE AppendNew(IF Head(es) \in Range(acc) THEN acc ELSE Append(acc, Head(es)),
                 Tail(es))

AppendEdgesOnce(acc, c) == AppendNew(acc, InEdges(c) \o OutEdges(c))

\* lines 145-150: one turn of the loop over the components
AppendEdges(acc, c) == acc \o InEdges(c) \o OutEdges(c)

RECURSIVE get_edges(_)
get_edges(cs) ==
  IF cs = <<>> THEN <<>>
  ELSE AppendEdges(get_edges(SubSeq(cs, 1, Len(cs) - 1)), cs[Len(cs)])

----------------------------------------------------------------------------
(* The energy system of the __main__ block, lines 156-171, and variations *)

Bus(uid, type) == [uid |-> uid, type |-> type]
SimpleTransformer(uid, inputs, outputs, eta) ==
  [uid |-> uid, inputs |-> inputs, outputs |-> outputs, eta |-> eta]
Transformer(uid, inputs, outputs) ==
  [uid |-> uid, inputs |-> inputs, outputs |-> outputs]

bus1 == Bus("b1", "coal")
bus2 == Bus("b2", "elec")
bus3 == Bus("b3", "th")

\* entities['buses']: the buses that get a balance constraint
BusLists == { <<>>, <<bus2>>, <<bus1, bus2, bus3>> }

\* entities['s_transformers'] and entities['s_chps']; a component refers to
\* a bus by its uid.  t0 and c0 are the components of __main__; the others
\* chain two transformers or break the shape the builder expects.
t0 == SimpleTransformer("t0", <<"b1">>, <<"b2">>, <<1, 2>>)
t1 == SimpleTransformer("t1", <<"b2">>, <<"b3">>, <<1, 1>>)
t0_two_in == SimpleTransformer("t0", <<"b1", "b3">>, <<"b2">>, <<1, 2>>)
t0_two_out == SimpleTransformer("t0", <<"b1">>, <<"b2", "b3">>, <<1, 2>>)
t0_no_in == SimpleTransformer("t0", <<>>, <<"b2">>, <<1, 2>>)
c0 == Transformer("c0", <<"b1">>, <<"b2", "b3">>)
c0_one_out == Transformer("c0", <<"b1">>, <<"b2">>)
c0_no_in == Transformer("c0", <<>>, <<"b2", "b3">>)

System(sts, chps) == [s_transformers |-> sts, s_chps |-> chps]

Systems ==
  { System(<<>>, <<>>),
    System(<<t0>>, <<>>),
    System(<<t0, t1>>, <<>>),
    System(<<>>, <<c0>>),
    System(<<t0>>, <<c0>>),
    System(<<t0_two_in>>, <<>>),
    System(<<t0_two_out>>, <<>>),
    System(<<t0_no_in>>, <<>>),
    System(<<>>, <<c0_one_out>>),
    System(<<t0>>, <<c0_one_out>>),
    System(<<>>, <<c0_no_in>>) }

\* the edges handed to opt_model: those of get_edges (line 167), or a list a
\* caller put together that misses the last of them
EdgeLists(cs) ==
  LET ge == get_edges(cs)
  IN  {ge} \cup (IF ge = <<>> THEN {} ELSE {SubSeq(ge, 1, Len(ge) - 1)})

TimestepLists == { [k \in 1..n |-> k - 1] : n \in 1..MaxT }

\* what the solver may report of a problem it was able to read and to work
\* through; it is the solver's to say, the program takes no part in it
SolverStatus == {"optimal", "infeasible", "unbounded"}

----------------------------------------------------------------------------
(* The pyomo model *)

EmptyModel ==
  [ attrs |-> {},
    w_max |-> <<>>, w |-> <<>>, w_add |-> <<>>,
    bus_constr |-> <<>>,
    s_chp_eta_constr |-> <<>>, s_chp_pth_constr |-> <<>>,
    s_transformer_eta_constr |-> <<>>, s_transformer_w_max |-> <<>>,
    objective |-> <<>> ]

\* bounds of a variable; ub counts only when bounded
Bounds(lb, ub) == [lb |-> lb, ub |-> ub, bounded |-> TRUE]
NonNegativeReals == [lb |-> 0, ub |-> 0, bounded |-> FALSE]

\* lines 40-41
w_max_rule(mm, i, j, t) == Bounds(0, Tenths(mm.w_max[<<i, j>>]))

\* the declaration keeping the capacity as upper bound with invest too
DeclareVarsBounded(mm) ==
  LET wmax == [e \in Range(edges) |-> W_MAX]
      keys == {WVar(e[1], e[2], t) : e \in Range(edges), t \in Range(timesteps)}
      m1 == [mm EXCEPT !.w_max = wmax]
      m2 == [m1 EXCEPT !.w = [v \in keys |-> w_max_rule(m1, v[2], v[3], v[4])],
                       !.attrs = @ \cup {"w"}]
  IN  IF invest = TRUE
      THEN [m2 EXCEPT !.w_add = [v \in {AddVar(e[1], e[2]) : e \in Range(edges)}
                                   |-> NonNegativeReals],
                      !.attrs = @ \cup {"w_add"}]
      ELSE m2

\* lines 35-43: the flow variables and, with invest, the extra capacities
DeclareVarsOf(mm) ==
  LET wmax == [e \in Range(edges) |-> W_MAX]
      keys == {WVar(e[1], e[2], t) : e \in Range(edges), t \in Range(timesteps)}
      m1 == [mm EXCEPT !.w_max = wmax]
  IN  IF invest = TRUE
      THEN [m1 EXCEPT !.w = [v \in keys |-> NonNegativeReals],
                      !.w_add = [v \in {AddVar(e[1], e[2]) : e \in Range(edges)}
                                   |-> NonNegativeReals],
                      !.attrs = @ \cup {"w", "w_add"}]
      ELSE [m1 EXCEPT !.w = [v \in keys |-> w_max_rule(m1, v[2], v[3], v[4])],
                      !.attrs = @ \cup {"w"}]

\* bus_rule summing the flows of all timesteps instead of those of t
bus_rule_all_timesteps(mm, e, t) ==
  LET outs == IndexPairs(SelectSeq(edges, LAMBDA x : x[1] = e), timesteps)
      ins  == IndexPairs(SelectSeq(edges, LAMBDA x : x[2] = e), timesteps)
  IN  Ok([idx |-> <<e, t>>,
          terms |-> [k \in DOMAIN outs |->
                       Term(WVar(outs[k][1][1], outs[k][1][2], outs[k][2]), -1, 1)]
                    \o [k \in DOMAIN ins |->
                       Term(WVar(ins[k][1][1], ins[k][1][2], ins[k][2]), 1, 1)],
          rel |-> "==", rhs |-> 0])

\* lines 46-50.  For a bus no edge touches the expression stays the number
\* 0; here that is a constraint without terms, which every point satisfies.
bus_rule(mm, e, t) ==
  LET outs == SelectSeq(edges, LAMBDA x : x[1] = e)
      ins  == SelectSeq(edges, LAMBDA x : x[2] = e)
  IN  Ok([idx |-> <<e, t>>,
          terms |-> [k \in DOMAIN outs |->
                       Term(WVar(outs[k][1], outs[k][2], t), -1, 1)]
                    \o [k \in DOMAIN ins |->
                       Term(WVar(ins[k][1], ins[k][2], t), 1, 1)],
          rel |-> "==", rhs |-> 0])

\* lines 89-93
chp_eta_rule(mm, e, t) ==
  LET c == LastWith(entities.s_chps, e)
      I == c.inputs[1]
      O == c.outputs
  IN  IF \/ WVar(I, e, t) \notin DOMAIN mm.w
         \/ \E k \in DOMAIN O : WVar(e, O[k], t) \notin DOMAIN mm.w
      THEN Raise("KeyError")
      ELSE Ok([idx |-> <<e, t>>,
               terms |-> <<Term(WVar(I, e, t), 1, 1)>>
                         \o [k \in DOMAIN O |->
                               Term(WVar(e, O[k], t), -CHP_ETA[2], CHP_ETA[1])],
               rel |-> "==", rhs |-> 0])

\* power_to_heat_rule taking the first output for heat and the second for power
power_to_heat_rule_swapped(mm, e, t) ==
  LET O == LastWith(entities.s_chps, e).outputs
  IN  IF Len(O) < 2 THEN Raise("IndexError")
      ELSE IF WVar(e, O[1], t) \notin DOMAIN mm.w \/ WVar(e, O[2], t) \notin DOMAIN mm.w
      THEN Raise("KeyError")
      ELSE Ok([idx |-> <<e, t>>,
               terms |-> <<Term(WVar(e, O[2], t), 1, 1),
                           Term(WVar(e, O[1], t), -CHP_PTH[1], CHP_PTH[2])>>,
               rel |-> "==", rhs |-> 0])

\* lines 97-101
power_to_heat_rule(mm, e, t) ==
  LET O == LastWith(entities.s_chps, e).outputs
  IN  IF Len(O) < 1 THEN Raise("IndexError")
      ELSE IF WVar(e, O[1], t) \notin DOMAIN mm.w THEN Raise("KeyError")
      ELSE IF Len(O) < 2 THEN Raise("IndexError")
      ELSE IF WVar(e, O[2], t) \notin DOMAIN mm.w THEN Raise("KeyError")
      ELSE Ok([idx |-> <<e, t>>,
               terms |-> <<Term(WVar(e, O[1], t), 1, 1),
                           Term(WVar(e, O[2], t), -CHP_PTH[1], CHP_PTH[2])>>,
               rel |-> "==", rhs |-> 0])

\* eta_rule with the efficiency on the output flow instead of the input flow
eta_rule_on_output(mm, e, t) ==
  LET c == LastWith(entities.s_transformers, e)
      I == c.inputs[1]
      O == c.outputs[1]
  IN  IF WVar(I, e, t) \notin DOMAIN mm.w \/ WVar(e, O, t) \notin DOMAIN mm.w
      THEN Raise("KeyError")
      ELSE Ok([idx |-> <<e, t>>,
               terms |-> <<Term(WVar(I, e, t), 1, 1),
                           Term(WVar(e, O, t), -c.eta[1], c.eta[2])>>,
               rel |-> "==", rhs |-> 0])

\* lines 64-68
eta_rule(mm, e, t) ==
  LET c == LastWith(entities.s_transformers, e)
      I == c.inputs[1]
      O == c.outputs[1]
  IN  IF WVar(I, e, t) \notin DOMAIN mm.w \/ WVar(e, O, t) \notin DOMAIN mm.w
      THEN Raise("KeyError")
      ELSE Ok([idx |-> <<e, t>>,
               terms |-> <<Term(WVar(I, e, t), c.eta[1], c.eta[2]),
                           Term(WVar(e, O, t), -1, 1)>>,
               rel |-> "==", rhs |-> 0])

\* w_bound_investment without the extra capacity
w_bound_investment_no_add(mm, i, j, t) ==
  IF WVar(i, j, t) \notin DOMAIN mm.w \/ <<i, j>> \notin DOMAIN mm.w_max
  THEN Raise("KeyError")
  ELSE Ok([idx |-> <<i, j, t>>,
           terms |-> <<Term(WVar(i, j, t), 1, 1)>>,
           rel |-> "<=", rhs |-> Tenths(mm.w_max[<<i, j>>])])

\* w_bound_investment with the inequality turned round: w >= w_max + w_add
w_bound_investment_flipped(mm, i, j, t) ==
  IF \/ WVar(i, j, t) \notin DOMAIN mm.w
     \/ <<i, j>> \notin DOMAIN mm.w_max
     \/ AddVar(i, j) \notin DOMAIN mm.w_add
  THEN Raise("KeyError")
  ELSE Ok([idx |-> <<i, j, t>>,
           terms |-> <<Term(WVar(i, j, t), -1, 1), Term(AddVar(i, j), 1, 1)>>,
           rel |-> "<=", rhs |-> -Tenths(mm.w_max[<<i, j>>])])

\* lines 74-75
w_bound_investment(mm, i, j, t) ==
  IF \/ WVar(i, j, t) \notin DOMAIN mm.w
     \/ <<i, j>> \notin DOMAIN mm.w_max
     \/ AddVar(i, j) \notin DOMAIN mm.w_add
  THEN Raise("KeyError")
  ELSE Ok([idx |-> <<i, j, t>>,
           terms |-> <<Term(WVar(i, j, t), 1, 1), Term(AddVar(i, j), -1, 1)>>,
           rel |-> "<=", rhs |-> Tenths(mm.w_max[<<i, j>>])])

\* lines 107-110
obj_rule(mm) ==
  LET ix == IndexPairs(edges, timesteps)
  IN  [k \in DOMAIN ix |-> Term(WVar(ix[k][1][1], ix[k][1][2], ix[k][2]), 1, 1)]

----------------------------------------------------------------------------
(* What the built model means: the value of an expression at a point, and  *)
(* the points that satisfy the bounds and the constraints                  *)

\* the value of a linear expression at pt, as a fraction <<n, d>> with d > 0
RECURSIVE Eval(_, _)
Eval(terms, pt) ==
  IF terms = <<>> THEN <<0, 1>>
  ELSE LET r == Eval(Tail(terms), pt)
           h == Head(terms)
       IN  <<r[1] * h.den + h.num * pt[h.v] * r[2], r[2] * h.den>>

\* (expr, 0) is expr == 0; the investment rule is an inequality
Holds(con, pt) ==
  LET r == Eval(con.terms, pt)
  IN  IF con.rel = "==" THEN r[1] = con.rhs * r[2] ELSE r[1] <= con.rhs * r[2]

InBounds(b, x) == x >= b.lb /\ (b.bounded => x <= b.ub)

AllConstraints(mm) ==
  mm.s_transformer_eta_constr \o mm.s_chp_pth_constr \o mm.s_chp_eta_constr
    \o mm.bus_constr \o mm.s_transformer_w_max

Feasible(mm, pt) ==
  /\ \A v \in DOMAIN mm.w : InBounds(mm.w[v], pt[v])
  /\ \A v \in DOMAIN mm.w_add : InBounds(mm.w_add[v], pt[v])
  /\ LET cs == AllConstraints(mm) IN \A k \in DOMAIN cs : Holds(cs[k], pt)

ObjectiveValue(mm, pt) == Eval(mm.objective, pt)[1]

\* the coefficient of variable v in an expression, as a fraction
Coef(terms, v) ==
  Eval(terms, [x \in {terms[k].v : k \in DOMAIN terms} \cup {v} |->
                 IF x = v THEN 1 ELSE 0])

VarsIn(terms) == {terms[k].v : k \in DOMAIN terms}

\* fractions a and b are the same number
SameFrac(a, b) == a[1] * b[2] = b[1] * a[2]

----------------------------------------------------------------------------
(* The points the built model is examined at.  A point gives every flow    *)
(* variable a value; it carries flow at one timestep, the value of each    *)
(* edge drawn from one of the value sets, and the same extra capacity on   *)
(* every edge.                                                             *)

ValueSets ==
  { {0, 24, Tenths(4), Tenths(8)},
    {0, Tenths(5), Tenths(10)},
    {0, Tenths(60), Tenths(120), Tenths(121)} }

AddLevels(mm) == IF DOMAIN mm.w_add = {} THEN {0} ELSE {0, Tenths(20)}

PointOf(mm, f, t, a) ==
  [v \in DOMAIN mm.w \cup DOMAIN mm.w_add |->
     IF v[1] = "w" THEN (IF v[4] = t THEN f[<<v[2], v[3]>>] ELSE 0) ELSE a]

ZeroPoint(mm) == [v \in DOMAIN mm.w \cup DOMAIN mm.w_add |-> 0]

\* P holds at every examined point that is feasible
EveryFeasible(mm, P(_)) ==
  \A V \in ValueSets :
    \A f \in [DOMAIN mm.w_max -> V], t \in Range(timesteps), a \in AddLevels(mm) :
      LET pt == PointOf(mm, f, t, a) IN Feasible(mm, pt) => P(pt)

\* P holds at some examined point that is feasible
SomeFeasible(mm, P(_)) ==
  \E V \in ValueSets :
    \E f \in [DOMAIN mm.w_max -> V], t \in Range(timesteps), a \in AddLevels(mm) :
      LET pt == PointOf(mm, f, t, a) IN Feasible(mm, pt) /\ P(pt)

----------------------------------------------------------------------------
(* opt_model, lines 5-118, one action per statement that adds to the model *)

\* a pyomo component over an index: the rule's results in index order, or
\* the first exception a rule raises
Family(rs, name, field) ==
  IF FirstErr(rs) # "none"
  THEN /\ err' = FirstErr(rs)
       /\ pc' = "raised"
       /\ m' = m
  ELSE /\ err' = err
       /\ m' = [m EXCEPT ![field] = Cons(rs), !.attrs = @ \cup {name}]

\* lines 35-43
DeclareVars ==
  /\ pc = "opt_model"
  /\ m' = DeclareVarsOf(m)
  /\ pc' = "bus_constr"
  /\ UNCHANGED <<entities, edges, timesteps, invest, err, results, ret,
                 components, ge_i, ge_edges>>

\* line 51: m.bus_constr = po.Constraint(m.buses, m.timesteps, rule=bus_rule)
BusConstr ==
  /\ pc = "bus_constr"
  /\ LET ix == IndexPairs(Uids(entities.buses), timesteps)
         rs == [k \in DOMAIN ix |-> bus_rule(m, ix[k][1], ix[k][2])]
     IN  /\ Family(rs, "bus_constr", "bus_constr")
         /\ pc' = "s_chp_eta_constr"
  /\ UNCHANGED <<entities, edges, timesteps, invest, results, ret,
                 components, ge_i, ge_edges>>

\* line 114 into lines 85-94: the dict I reads inputs[0] of every chp
ChpEtaConstr ==
  /\ pc = "s_chp_eta_constr"
  /\ IF \E k \in DOMAIN entities.s_chps : entities.s_chps[k].inputs = <<>>
     THEN /\ err' = "IndexError"
          /\ pc' = "raised"
          /\ m' = m
     ELSE LET ix == IndexPairs(Uids(entities.s_chps), timesteps)
              rs == [k \in DOMAIN ix |-> chp_eta_rule(m, ix[k][1], ix[k][2])]
          IN  /\ Family(rs, "s_chp_eta_constr", "s_chp_eta_constr")
              /\ FirstErr(rs) = "none" => pc' = "s_chp_pth_constr"
  /\ UNCHANGED <<entities, edges, timesteps, invest, results, ret,
                 components, ge_i, ge_edges>>

\* lines 97-103
ChpPthConstr ==
  /\ pc = "s_chp_pth_constr"
  /\ LET ix == IndexPairs(Uids(entities.s_chps), timesteps)
         rs == [k \in DOMAIN ix |-> power_to_heat_rule(m, ix[k][1], ix[k][2])]
     IN  /\ Family(rs, "s_chp_pth_constr", "s_chp_pth_constr")
         /\ FirstErr(rs) = "none" => pc' = "s_transformer_eta_constr"
  /\ UNCHANGED <<entities, edges, timesteps, invest, results, ret,
                 components, ge_i, ge_edges>>

\* line 115 into lines 60-70: the dicts I and O read inputs[0] and outputs[0]
TransformerEtaConstr ==
  /\ pc = "s_transformer_eta_constr"
  /\ IF \E k \in DOMAIN entities.s_transformers :
          \/ entities.s_transformers[k].inputs = <<>>
          \/ entities.s_transformers[k].outputs = <<>>
     THEN /\ err' = "IndexError"
          /\ pc' = "raised"
          /\ m' = m
     ELSE LET ix == IndexPairs(Uids(entities.s_transformers), timesteps)
              rs == [k \in DOMAIN ix |-> eta_rule(m, ix[k][1], ix[k][2])]
          IN  /\ Family(rs, "s_transformer_eta_constr",
                        "s_transformer_eta_constr")
              /\ FirstErr(rs) = "none" => pc' = "s_transformer_w_max"
  /\ UNCHANGED <<entities, edges, timesteps, invest, results, ret,
                 components, ge_i, ge_edges>>

\* lines 72-77
TransformerInvest ==
  /\ pc = "s_transformer_w_max"
  /\ IF invest = TRUE
     THEN LET ix == IndexPairs(get_edges(entities.s_transformers), timesteps)
              rs == [k \in DOMAIN ix |->
                       w_bound_investment(m, ix[k][1][1], ix[k][1][2], ix[k][2])]
          IN  /\ Family(rs, "s_transformer_w_max", "s_transformer_w_max")
              /\ FirstErr(rs) = "none" => pc' = "objective"
     ELSE /\ pc' = "objective"
          /\ UNCHANGED <<m, err>>
  /\ UNCHANGED <<entities, edges, timesteps, invest, results, ret,
                 components, ge_i, ge_edges>>

\* lines 116-118: the objective, and the model is returned
Objective ==
  /\ pc = "objective"
  /\ m' = [m EXCEPT !.objective = obj_rule(m), !.attrs = @ \cup {"objective"}]
  /\ pc' = "built"
  /\ UNCHANGED <<entities, edges, timesteps, invest, err, results, ret,
                 components, ge_i, ge_edges>>

----------------------------------------------------------------------------
(* solve_opt_model, lines 120-140 *)

\* Lines 128-140.  The solver is an external program and the status of its
\* results is its own; the program never reads it: line 138 loads the
\* results and line 140 returns the instance.
SolveOptModel ==
  /\ pc = "built"
  /\ \E status \in SolverStatus : results' = status
  /\ ret' = "instance"
  /\ pc' = "returned"
  /\ UNCHANGED <<entities, edges, timesteps, invest, m, err,
                 components, ge_i, ge_edges>>

----------------------------------------------------------------------------
(* The specification: opt_model and solve_opt_model on every input *)

Init ==
  /\ \E bs \in BusLists, sys \in Systems :
       /\ entities = [buses |-> bs, s_transformers |-> sys.s_transformers,
                      s_chps |-> sys.s_chps]
       /\ components = sys.s_transformers \o sys.s_chps
       /\ edges \in EdgeLists(sys.s_transformers \o sys.s_chps)
  /\ timesteps \in TimestepLists
  /\ invest \in BOOLEAN
  /\ pc = "opt_model"
  /\ m = EmptyModel
  /\ err = "none"
  /\ results = "none"
  /\ ret = "none"
  /\ ge_i = Len(components) + 1
  /\ ge_edges = get_edges(components)

Next ==
  \/ DeclareVars
  \/ BusConstr
  \/ ChpEtaConstr
  \/ ChpPthConstr
  \/ TransformerEtaConstr
  \/ TransformerInvest
  \/ Objective
  \/ SolveOptModel

Spec == Init /\ [][Next]_vars

----------------------------------------------------------------------------
(* get_edges on its own, on lists of components of every shape: no input,  *)
(* several inputs or outputs, the same bus twice                           *)

Component(uid, inputs, outputs) == [uid |-> uid, inputs |-> inputs, outputs |-> outputs]

ComponentUids == <<"c0", "c1", "c2", "c3", "c4", "c5">>

PortLists ==
  { [inputs |-> <<"b1">>, outputs |-> <<"b2">>],
    [inputs |-> <<"b1">>, outputs |-> <<"b2", "b3">>],
    [inputs |-> <<"b1", "b1">>, outputs |-> <<"b2">>],
    [inputs |-> <<>>, outputs |-> <<"b3", "b3">>] }

ComponentLists ==
  UNION { { [k \in 1..n |-> Component(ComponentUids[k], ps[k].inputs, ps[k].outputs)] :
              ps \in [1..n -> PortLists] } : n \in 0..MaxComponents }

InitEdges ==
  /\ components \in ComponentLists
  /\ pc = "get_edges"
  /\ ge_i = 1
  /\ ge_edges = <<>>
  /\ entities = [buses |-> <<>>, s_transformers |-> <<>>, s_chps |-> <<>>]
  /\ edges = <<>>
  /\ timesteps = <<>>
  /\ invest = FALSE
  /\ m = EmptyModel
  /\ err = "none"
  /\ results = "none"
  /\ ret = "none"

\* lines 144-150: the turn of the loop for component ge_i
GetEdgesLoop ==
  /\ pc = "get_edges"
  /\ ge_i <= Len(components)
  /\ ge_edges' = AppendEdges(ge_edges, components[ge_i])
  /\ ge_i' = ge_i + 1
  /\ UNCHANGED <<entities, edges, timesteps, invest, pc, m, err, results, ret,
                 components>>

\* line 151, and line 167 takes the list as the edges
GetEdgesReturn ==
  /\ pc = "get_edges"
  /\ ge_i > Len(components)
  /\ edges' = ge_edges
  /\ pc' = "ge_returned"
  /\ UNCHANGED <<entities, timesteps, invest, m, err, results, ret,
                 components, ge_i, ge_edges>>

NextEdges ==
  \/ GetEdgesLoop
  \/ GetEdgesReturn

SpecEdges == InitEdges /\ [][NextEdges]_vars

----------------------------------------------------------------------------
(* Properties *)

Built == pc = "built"

ConstraintNames ==
  {"bus_constr", "s_chp_eta_constr", "s_chp_pth_constr",
   "s_transformer_eta_constr", "s_transformer_w_max"}

\* the constraint of a family at an index
At(family, idx) == {family[k] : k \in {j \in DOMAIN family : family[j].idx = idx}}

\* sum of the flows at timestep t over the edges of the list that satisfy Sel
RECURSIVE FlowSum(_, _, _, _)
FlowSum(es, Sel(_), t, pt) ==
  IF es = <<>> THEN 0
  ELSE (IF Sel(Head(es)) THEN pt[WVar(Head(es)[1], Head(es)[2], t)] ELSE 0)
       + FlowSum(Tail(es), Sel, t, pt)

Inflow(b, t, pt) == FlowSum(edges, LAMBDA x : x[2] = b, t, pt)
Outflow(b, t, pt) == FlowSum(edges, LAMBDA x : x[1] = b, t, pt)

\* how often edge <<i, j>> is in the list with j = b, minus how often with i = b
RECURSIVE NetCount(_, _, _)
NetCount(es, e, b) ==
  IF es = <<>> THEN 0
  ELSE (IF Head(es) = e /\ e[2] = b THEN 1 ELSE 0)
       - (IF Head(es) = e /\ e[1] = b THEN 1 ELSE 0)
       + NetCount(Tail(es), e, b)

Balanced(pt) ==
  \A k \in DOMAIN entities.buses, t \in Range(timesteps) :
    Inflow(entities.buses[k].uid, t, pt) - Outflow(entities.buses[k].uid, t, pt) = 0

\* C1: once the bus constraints are built there is one for every bus and
\* timestep, |buses| x |timesteps| in all, each an equality with 0 whose
\* expression is the inflow of the bus minus its outflow over the flows of
\* that same timestep only; and every feasible point of the built model has
\* inflow(b,t) - outflow(b,t) = 0 for every bus b and timestep t.
C1_BusBalance ==
  /\ "bus_constr" \in m.attrs =>
       /\ Len(m.bus_constr) = Len(entities.buses) * Len(timesteps)
       /\ \A k \in DOMAIN entities.buses, t \in Range(timesteps) :
            LET b == entities.buses[k].uid
                cs == At(m.bus_constr, <<b, t>>)
            IN  /\ Cardinality(cs) = 1
                /\ \A c \in cs :
                     /\ c.rel = "==" /\ c.rhs = 0
                     /\ \A v \in VarsIn(c.terms) : v[1] = "w" /\ v[4] = t
                     /\ \A e \in Range(edges) :
                          SameFrac(Coef(c.terms, WVar(e[1], e[2], t)),
                                   <<NetCount(edges, e, b), 1>>)
  /\ Built => EveryFeasible(m, Balanced)

CarriesFlowThroughBus(pt) ==
  \E k \in DOMAIN entities.buses, t \in Range(timesteps) :
    Inflow(entities.buses[k].uid, t, pt) > 0

\* C1 witness: a built model, two timesteps, and a feasible point at which a
\* bus passes flow on
C1_Witness ==
  /\ Built
  /\ Len(timesteps) >= 2
  /\ SomeFeasible(m, CarriesFlowThroughBus)

EtaHolds(pt) ==
  \A k \in DOMAIN entities.s_transformers, t \in Range(timesteps) :
    LET c == entities.s_transformers[k]
    IN  pt[WVar(c.inputs[1], c.uid, t)] * c.eta[1]
          = pt[WVar(c.uid, c.outputs[1], t)] * c.eta[2]

ScenarioA(pt) ==
  \A k \in DOMAIN entities.s_transformers, t \in Range(timesteps) :
    LET c == entities.s_transformers[k]
    IN  (c.eta = <<1, 2>> /\ pt[WVar(c.inputs[1], c.uid, t)] = Tenths(10))
          => pt[WVar(c.uid, c.outputs[1], t)] = Tenths(5)

\* C2: the built model holds, for every simple transformer e and timestep t,
\* the equality w[I(e),e,t] * eta(e) - w[e,O(e),t] = 0, and every feasible
\* point satisfies w[I(e),e,t] * eta(e) = w[e,O(e),t]; with eta = 0.5 an
\* input flow of 10 comes with an output flow of 5.
C2_TransformerEta ==
  /\ "s_transformer_eta_constr" \in m.attrs =>
       \A k \in DOMAIN entities.s_transformers, t \in Range(timesteps) :
         LET c == entities.s_transformers[k]
             cs == At(m.s_transformer_eta_constr, <<c.uid, t>>)
         IN  /\ Cardinality(cs) = 1
             /\ \A con \in cs :
                  /\ con.rel = "==" /\ con.rhs = 0
                  /\ VarsIn(con.terms) = {WVar(c.inputs[1], c.uid, t),
                                         WVar(c.uid, c.outputs[1], t)}
                  /\ SameFrac(Coef(con.terms, WVar(c.inputs[1], c.uid, t)), c.eta)
                  /\ SameFrac(Coef(con.terms, WVar(c.uid, c.outputs[1], t)),
                              <<-1, 1>>)
  /\ Built => EveryFeasible(m, LAMBDA pt : EtaHolds(pt) /\ ScenarioA(pt))

ScenarioAFlows(pt) ==
  \E k \in DOMAIN entities.s_transformers, t \in Range(timesteps) :
    LET c == entities.s_transformers[k]
    IN  /\ c.eta = <<1, 2>>
        /\ pt[WVar(c.inputs[1], c.uid, t)] = Tenths(10)
        /\ pt[WVar(c.uid, c.outputs[1], t)] = Tenths(5)

\* C2 witness: scenario A, a feasible point of a built model with flow 10
\* into a transformer of efficiency 0.5 and flow 5 out of it
C2_Witness ==
  /\ Built
  /\ SomeFeasible(m, ScenarioAFlows)

\* input = (power + heat) / 0.8 and power = 0.6 * heat, without division
ChpHolds(pt) ==
  \A k \in DOMAIN entities.s_chps, t \in Range(timesteps) :
    LET c == entities.s_chps[k]
        in == pt[WVar(c.inputs[1], c.uid, t)]
        power == pt[WVar(c.uid, c.outputs[1], t)]
        heat == pt[WVar(c.uid, c.outputs[2], t)]
    IN  /\ in * 8 = (power + heat) * 10
        /\ power * 10 = 6 * heat

ScenarioB(pt) ==
  \A k \in DOMAIN entities.s_chps, t \in Range(timesteps) :
    LET c == entities.s_chps[k]
    IN  pt[WVar(c.inputs[1], c.uid, t)] = Tenths(8)
          => /\ pt[WVar(c.uid, c.outputs[2], t)] = Tenths(4)
             /\ pt[WVar(c.uid, c.outputs[1], t)] = 24

TwoOutputs == \A k \in DOMAIN entities.s_chps : Len(entities.s_chps[k].outputs) = 2

\* C3: for every CHP with outputs [power, heat] and every timestep the
\* built model holds the two equalities input - (power + heat) / 0.8 = 0 and
\* power - 0.6 * heat = 0, power being the first output and heat the second,
\* and every feasible point satisfies both; an input flow of 8 comes with
\* heat 4 and power 2.4.
C3_Chp ==
  (Built /\ TwoOutputs) =>
    /\ \A k \in DOMAIN entities.s_chps, t \in Range(timesteps) :
         LET c == entities.s_chps[k]
             in == WVar(c.inputs[1], c.uid, t)
             power == WVar(c.uid, c.outputs[1], t)
             heat == WVar(c.uid, c.outputs[2], t)
             es == At(m.s_chp_eta_constr, <<c.uid, t>>)
             ps == At(m.s_chp_pth_constr, <<c.uid, t>>)
         IN  /\ Cardinality(es) = 1 /\ Cardinality(ps) = 1
             /\ \A con \in es :
                  /\ con.rel = "==" /\ con.rhs = 0
                  /\ VarsIn(con.terms) = {in, power, heat}
                  /\ SameFrac(Coef(con.terms, in), <<1, 1>>)
                  /\ SameFrac(Coef(con.terms, power), <<-10, 8>>)
                  /\ SameFrac(Coef(con.terms, heat), <<-10, 8>>)
             /\ \A con \in ps :
                  /\ con.rel = "==" /\ con.rhs = 0
                  /\ VarsIn(con.terms) = {power, heat}
                  /\ SameFrac(Coef(con.terms, power), <<1, 1>>)
                  /\ SameFrac(Coef(con.terms, heat), <<-6, 10>>)
    /\ EveryFeasible(m, LAMBDA pt : ChpHolds(pt) /\ ScenarioB(pt))

ScenarioBFlows(pt) ==
  \E k \in DOMAIN entities.s_chps, t \in Range(timesteps) :
    LET c == entities.s_chps[k]
    IN  /\ pt[WVar(c.inputs[1], c.uid, t)] = Tenths(8)
        /\ pt[WVar(c.uid, c.outputs[2], t)] = Tenths(4)
        /\ pt[WVar(c.uid, c.outputs[1], t)] = 24

\* C3 witness: scenario B, a feasible point of a built model with flow 8
\* into a CHP, heat 4 and power 2.4
C3_Witness ==
  /\ Built /\ TwoOutputs
  /\ SomeFeasible(m, ScenarioBFlows)

\* C4: once the variables are declared the bounds follow the invest flag
\* alone.  Without invest every w[edge,t] has the bounds [0, 100] and there
\* is no w_add; with invest every w[edge,t] has the lower bound 0 and no
\* upper bound, and there is one w_add[edge], with the same bounds, for
\* every edge of the edge list and for nothing else.
C4_Bounds ==
  "w" \in m.attrs =>
    /\ DOMAIN m.w = {WVar(e[1], e[2], t) : e \in Range(edges), t \in Range(timesteps)}
    /\ invest = FALSE =>
         /\ \A v \in DOMAIN m.w :
              m.w[v].lb = 0 /\ m.w[v].bounded /\ m.w[v].ub = Tenths(100)
         /\ DOMAIN m.w_add = {}
         /\ "w_add" \notin m.attrs
    /\ invest = TRUE =>
         /\ \A v \in DOMAIN m.w : m.w[v].lb = 0 /\ ~m.w[v].bounded
         /\ "w_add" \in m.attrs
         /\ DOMAIN m.w_add = {AddVar(e[1], e[2]) : e \in Range(edges)}
         /\ \A v \in DOMAIN m.w_add : m.w_add[v].lb = 0 /\ ~m.w_add[v].bounded

\* C4 witness: the variables of a model with invest are declared over
\* several edges and timesteps
C4_Witness ==
  /\ pc = "bus_constr"
  /\ invest = TRUE
  /\ Len(edges) >= 2 /\ Len(timesteps) >= 2
  /\ Cardinality(DOMAIN m.w_add) = Len(edges)

CapacityHolds(pt) ==
  \A e \in Range(get_edges(entities.s_transformers)), t \in Range(timesteps) :
    /\ pt[WVar(e[1], e[2], t)] <= Tenths(100) + pt[AddVar(e[1], e[2])]
    /\ pt[AddVar(e[1], e[2])] = Tenths(20) => pt[WVar(e[1], e[2], t)] <= Tenths(120)

\* C5: with invest, once the investment bounds are built there is, for
\* every input edge and output edge (i,j) of a simple transformer and every
\* timestep t, the constraint w[i,j,t] <= 100 + w_add[i,j], and every
\* feasible point with w_add[i,j] = 20 has w[i,j,t] <= 120; without invest
\* no such constraint is ever built.
C5_InvestmentBound ==
  /\ (invest = TRUE /\ "s_transformer_w_max" \in m.attrs) =>
       LET ee == get_edges(entities.s_transformers)
       IN  /\ Len(m.s_transformer_w_max) = Len(ee) * Len(timesteps)
           /\ \A e \in Range(ee), t \in Range(timesteps) :
                LET cs == At(m.s_transformer_w_max, <<e[1], e[2], t>>)
                IN  /\ Cardinality(cs) = 1
                    /\ \A con \in cs :
                         /\ con.rel = "<=" /\ con.rhs = Tenths(100)
                         /\ VarsIn(con.terms)
                              = {WVar(e[1], e[2], t), AddVar(e[1], e[2])}
                         /\ SameFrac(Coef(con.terms, WVar(e[1], e[2], t)), <<1, 1>>)
                         /\ SameFrac(Coef(con.terms, AddVar(e[1], e[2])), <<-1, 1>>)
  /\ (invest = TRUE /\ Built) => EveryFeasible(m, CapacityHolds)
  /\ invest = FALSE =>
       /\ m.s_transformer_w_max = <<>>
       /\ "s_transformer_w_max" \notin m.attrs

Saturated(pt) ==
  \E e \in Range(get_edges(entities.s_transformers)), t \in Range(timesteps) :
    /\ pt[AddVar(e[1], e[2])] = Tenths(20)
    /\ pt[WVar(e[1], e[2], t)] = Tenths(120)

\* C5 witness: scenario C, a feasible point of a model built with invest at
\* which a transformer edge has w_add = 20 and carries the flow 120
C5_Witness ==
  /\ Built /\ invest = TRUE
  /\ SomeFeasible(m, Saturated)

WellFormedEdges == edges = get_edges(entities.s_transformers \o entities.s_chps)

WellFormed ==
  /\ WellFormedEdges
  /\ \A k \in DOMAIN entities.s_transformers :
       /\ Len(entities.s_transformers[k].inputs) = 1
       /\ Len(entities.s_transformers[k].outputs) = 1
  /\ \A k \in DOMAIN entities.s_chps :
       /\ Len(entities.s_chps[k].inputs) = 1
       /\ Len(entities.s_chps[k].outputs) = 2

\* C7 (the claim as stated; the program violates it): when a CHP declares
\* only one output, opt_model ends with ConfigurationError and at that
\* moment the model holds no constraint.
C7_ChpOneOutputFailsFast ==
  (/\ WellFormedEdges
   /\ \E k \in DOMAIN entities.s_chps : Len(entities.s_chps[k].outputs) = 1
   /\ pc = "raised")
    => /\ err = "ConfigurationError"
       /\ m.attrs \cap ConstraintNames = {}

\* C8 (the claim as stated; the program violates it): when solve_opt_model
\* has ended on the model of a well-formed system, a status of infeasible or unbounded has ended it with the
\* error of that status, and an instance was returned only if the status
\* is optimal.
C8_FailedSolveIsNoSuccess ==
  (pc = "returned" /\ WellFormed /\ entities.s_transformers # <<>>) =>
    /\ results = "infeasible" => (err = "InfeasibleModel" /\ ret # "instance")
    /\ results = "unbounded" => (err = "UnboundedModel" /\ ret # "instance")
    /\ ret = "instance" => results = "optimal"

\* C9 (the claim as stated; the program violates it): a simple transformer
\* whose inputs or outputs are not exactly one is rejected, so opt_model
\* never returns a model for it.
C9_TransformerShapeRejected ==
  (/\ WellFormedEdges
   /\ \E k \in DOMAIN entities.s_transformers :
        \/ Len(entities.s_transformers[k].inputs) # 1
        \/ Len(entities.s_transformers[k].outputs) # 1)
    => pc \notin {"built", "returned"}

\* C10: for a well-formed input, with and without invest, the point with
\* every w and every w_add at 0 satisfies every bound and every constraint
\* of the built model, its objective value is 0, and no feasible point has
\* a smaller objective value.
C10_ZeroFeasible ==
  (Built /\ WellFormed) =>
    /\ Feasible(m, ZeroPoint(m))
    /\ ObjectiveValue(m, ZeroPoint(m)) = 0
    /\ EveryFeasible(m, LAMBDA pt : ObjectiveValue(m, pt) >= 0)

\* C10 witness: a well-formed system with a transformer and a CHP, built
\* with invest; the zero point is feasible and so is a point with a positive
\* objective value
C10_Witness ==
  /\ Built /\ WellFormed /\ invest = TRUE
  /\ entities.s_transformers # <<>> /\ entities.s_chps # <<>>
  /\ m.s_transformer_w_max # <<>>
  /\ Feasible(m, ZeroPoint(m))
  /\ SomeFeasible(m, LAMBDA pt : ObjectiveValue(m, pt) > 0)

\* number of edges of the components before the k-th
RECURSIVE Offset(_, _)
Offset(cs, k) ==
  IF k <= 1 THEN 0
  ELSE Offset(cs, k - 1) + Len(cs[k - 1].inputs) + Len(cs[k - 1].outputs)

\* C6: the list get_edges returns holds, for each component in list order,
\* one edge (input, component) per input in input order, then one edge
\* (component, output) per output in output order, repeated edges
\* included; its length is the sum over the components of
\* |inputs| + |outputs|.
C6_GetEdges ==
  pc = "ge_returned" =>
    /\ Len(edges) = Offset(components, Len(components) + 1)
    /\ \A k \in DOMAIN components :
         LET c == components[k]
             off == Offset(components, k)
         IN  /\ \A a \in DOMAIN c.inputs :
                  edges[off + a] = <<c.inputs[a], c.uid>>
             /\ \A b \in DOMAIN c.outputs :
                  edges[off + Len(c.inputs) + b] = <<c.uid, c.outputs[b]>>
    /\ edges = get_edges(components)

\* C6 witness: get_edges has returned the edges of several components, one
\* of them twice
C6_Witness ==
  /\ pc = "ge_returned"
  /\ Len(components) >= 2
  /\ \E a, b \in DOMAIN edges : a < b /\ edges[a] = edges[b]

====
